---- MODULE Spec2Model ----
(***************************************************************************)
(* Model of the accumulator machine of src/machine.py: Number and Register *)
(* (src/misc.py), the file devices (src/device.py), ALU, the two memories, *)
(* the ControlUnit and the Machine driven one single_step() at a time.     *)
(* One action, single_step, is one whole call of Machine.single_step().    *)
(***************************************************************************)
EXTENDS Integers, Sequences, FiniteSets, TLC

(***************************************************************************)
(* Bounds of the model.                                                    *)
(***************************************************************************)
\* calls of single_step() in one run
MaxSteps == 5
\* instructions placed before the instruction under study
MaxSetup == 1
\* widest Number, beside the machine's own width, built on its own
MaxBits == 3
\* characters in in.txt
MaxInput == 2

(***************************************************************************)
(* Program constants.                                                      *)
(***************************************************************************)
\* Machine.bit_depth, ALU.bit_depth, Device.bit_depth
bit_depth == 16
\* DataMemory: addresses below this one go through the device list
DeviceWindow == 4
\* len(self._devs): [FileInputDevice(), FileOutputDevice()]
NumDevices == 2

\* 2 ** bit_depth, the length of both memories
MemSize == 2 ^ bit_depth

(***************************************************************************)
(* Values that stand for Python objects.                                   *)
(***************************************************************************)
\* the empty instruction-memory cell (Python None)
None == [operation |-> "None", fetch_type |-> "", data |-> 0]
\* a data-memory cell holding Python None (FileOutputDevice.read() returns
\* nothing); kept outside the range of any Number
NoneCell == MemSize

Abs(v) == IF v < 0 THEN -v ELSE v

Min(a, b) == IF a < b THEN a ELSE b

(***************************************************************************)
(* Python floats, through which set_value passes its numbers: a float has  *)
(* MantissaBits significant binary digits and a magnitude below            *)
(* 2 ** MaxExponent.                                                       *)
(***************************************************************************)
\* sys.float_info.mant_dig
MantissaBits == 53
\* sys.float_info.max_exp
MaxExponent == 1024

\* int.bit_length() of a natural number
RECURSIVE bit_length(_)
bit_length(m) == IF m = 0 THEN 0 ELSE 1 + bit_length(m \div 2)

\* the quotient q of a division by ulp with remainder r, rounded to the
\* nearest integer, a tie going to the even one
round_half_even(q, r, ulp) ==
    IF 2 * r > ulp \/ (2 * r = ulp /\ q % 2 = 1) THEN q + 1 ELSE q

\* m cut down to MantissaBits significant digits, ulp being the weight of
\* the last digit kept
round_to(m, ulp) == ulp * round_half_even(m \div ulp, m % ulp, ulp)

\* float(m) for a natural number m, as the integer the float stands for
float(m) ==
    IF bit_length(m) <= MantissaBits THEN m
    ELSE round_to(m, 2 ^ (bit_length(m) - MantissaBits))

\* the exception of an integer that no float can hold
OverflowError == "OverflowError"

(***************************************************************************)
(* misc.py: Number.  set_value keeps the low bit_depth bits of the         *)
(* magnitude (abs(value) & (2**bd - 1), i.e. the magnitude modulo 2**bd),  *)
(* hands them and the argument to math.copysign, which turns both into     *)
(* floats, and stores the float it returns as an integer.                  *)
(***************************************************************************)
\* math.copysign(..., value) raises OverflowError: float(value) is out of
\* range
set_value_fails(value) == bit_length(float(Abs(value))) > MaxExponent

\* the sign of value on the float of the masked magnitude
copysign(bd, value) ==
    IF value < 0 THEN -float(Abs(value) % (2 ^ bd))
    ELSE float(Abs(value) % (2 ^ bd))

set_value(bd, value) ==
    IF set_value_fails(value) THEN OverflowError ELSE copysign(bd, value)

\* Number(bit_depth, value): "if value: self.set_value(value)"
Number(bd, value) == IF value = 0 THEN 0 ELSE set_value(bd, value)

\* Number.__add__ / __sub__ of two Numbers of depths b1 and b2
NumAdd(b1, x, b2, y) == Number(Min(b1, b2), x + y)

NumSub(b1, x, b2, y) == Number(Min(b1, b2), x - y)

(***************************************************************************)
(* Python's | on integers (two's complement of unbounded width).           *)
(***************************************************************************)
RECURSIVE NatOr(_, _)
NatOr(a, b) ==
    IF a = 0 THEN b
    ELSE IF b = 0 THEN a
    ELSE (IF a % 2 = 1 \/ b % 2 = 1 THEN 1 ELSE 0) + 2 * NatOr(a \div 2, b \div 2)

RECURSIVE NatAnd(_, _)
NatAnd(a, b) ==
    IF a = 0 \/ b = 0 THEN 0
    ELSE (IF a % 2 = 1 /\ b % 2 = 1 THEN 1 ELSE 0) + 2 * NatAnd(a \div 2, b \div 2)

\* a & ~b for naturals a, b
RECURSIVE NatAndNot(_, _)
NatAndNot(a, b) ==
    IF a = 0 THEN 0
    ELSE (IF a % 2 = 1 /\ b % 2 = 0 THEN 1 ELSE 0) + 2 * NatAndNot(a \div 2, b \div 2)

IntOr(a, b) ==
    IF a >= 0 /\ b >= 0 THEN NatOr(a, b)
    ELSE IF a < 0 /\ b < 0 THEN -NatAnd(-a - 1, -b - 1) - 1
    ELSE IF a < 0 THEN -NatAndNot(-a - 1, b) - 1
    ELSE -NatAndNot(-b - 1, a) - 1

(***************************************************************************)
(* misc.py: Register, a record [value, read_opened, write_opened].         *)
(***************************************************************************)
Register == [value |-> 0, read_opened |-> FALSE, write_opened |-> FALSE]

\* Register.read(): the stored number, or a zero Number when not driving
\* variant: read() ignores the read-gate
read_ungated(r) == r.value

read(r) == IF r.read_opened THEN r.value ELSE 0

\* variant: write() ignores the write-gate
write_ungated(r, n) == [r EXCEPT !.value = set_value(bit_depth, n)]

\* Register.write(n): latches only with the write-gate open
write(r, n) ==
    IF r.write_opened THEN [r EXCEPT !.value = set_value(bit_depth, n)] ELSE r

open_read(r) == [r EXCEPT !.read_opened = TRUE]

close_read(r) == [r EXCEPT !.read_opened = FALSE]

open_write(r) == [r EXCEPT !.write_opened = TRUE]

close_write(r) == [r EXCEPT !.write_opened = FALSE]

(***************************************************************************)
(* State.  Every register is a Register record; mem is the data memory as  *)
(* a function from the addresses of its non-zero cells to their values     *)
(* (every other cell holds a zero Number); program is the instruction      *)
(* memory's occupied prefix, data the "data" list of the initial record    *)
(* and buffer is FileInputDevice.buffer.  exc is how the last call of      *)
(* ControlUnit.step() ended ("none": it returned), rd_log lists the        *)
(* DataMemory.read() calls completed since construction (address, the      *)
(* cell's content and the data register's content after the read),         *)
(* alu_log lists the ALU.perform() calls made since construction (the      *)
(* registers whose read-gate was open on either bus) and steps counts the  *)
(* calls made.  num is a Number object of its own and last_call the most   *)
(* recent direct call of a Number, Register or ALU method with its         *)
(* argument and what it returned; a run of the machine leaves both alone.  *)
(* resumed tells that step() was called again after a call of step() that  *)
(* ended with an exception other than HaltedError.                         *)
(***************************************************************************)
VARIABLES acc, addr_reg, data_reg, instr_pointer, mem, program, data, buffer,
          pointer, out, instruction, lock_inc, halted, exc, rd_log, steps,
          alu_log, num, last_call, resumed

vars == <<acc, addr_reg, data_reg, instr_pointer, mem, program, data, buffer,
          pointer, out, instruction, lock_inc, halted, exc, rd_log, steps,
          alu_log, num, last_call, resumed>>

\* the mutable part of the machine, threaded through the operations below
Machine ==
    [acc |-> acc, addr_reg |-> addr_reg, data_reg |-> data_reg,
     instr_pointer |-> instr_pointer, mem |-> mem, pointer |-> pointer,
     out |-> out, instruction |-> instruction, lock_inc |-> lock_inc,
     halted |-> halted, exc |-> exc, rd_log |-> rd_log, alu_log |-> alu_log]

Ok(s) == s.exc = "none"

raise(s, e) == [s EXCEPT !.exc = e]

(***************************************************************************)
(* Data memory cells.                                                      *)
(***************************************************************************)
MemGet(m, a) == IF a \in DOMAIN m THEN m[a] ELSE 0

MemPut(m, a, v) ==
    IF v = 0 THEN [x \in (DOMAIN m) \ {a} |-> m[x]]
    ELSE [x \in (DOMAIN m) \cup {a} |-> IF x = a THEN v ELSE m[x]]

\* DataMemory.__init__: data followed by zero Numbers
InitMem(d) ==
    LET nz == {i \in 1..Len(d) : Number(bit_depth, d[i]) # 0}
    IN  [a \in {i - 1 : i \in nz} |-> Number(bit_depth, d[a + 1])]

(***************************************************************************)
(* InstructionsMemory.read(): self._mem[self._instr_pointer.read().value]; *)
(* a negative index counts from the end of the list, as Python lists do.   *)
(***************************************************************************)
InstructionsMemory_read(s) ==
    LET i   == read(s.instr_pointer)
        idx == IF i < 0 THEN MemSize + i ELSE i
    IN  IF idx < Len(program) THEN program[idx + 1] ELSE None

(***************************************************************************)
(* device.py                                                               *)
(***************************************************************************)
\* FileInputDevice.read(): the value returned
FileInputDevice_value(s) ==
    IF s.pointer >= Len(buffer) THEN Number(bit_depth, 0) ELSE buffer[s.pointer + 1]

\* variant: the read does not move the pointer
FileInputDevice_pointer_stuck(s) == s.pointer

\* FileInputDevice.read(): the pointer afterwards
FileInputDevice_pointer(s) ==
    IF s.pointer >= Len(buffer) THEN s.pointer ELSE s.pointer + 1

\* FileOutputDevice.write(n): f.write(chr(n.value)); chr rejects a negative
\* argument and the UTF-8 file rejects a lone surrogate
FileOutputDevice_write(s, n) ==
    IF n < 0 THEN raise(s, "ValueError")
    ELSE IF n >= 55296 /\ n <= 57343 THEN raise(s, "UnicodeEncodeError")
    ELSE [s EXCEPT !.out = Append(@, n)]

(***************************************************************************)
(* DataMemory                                                              *)
(***************************************************************************)
DataMemory_read(s) ==
    LET addr == read(s.addr_reg)
    IN  IF addr < 0 THEN raise(s, "RuntimeError")
        ELSE IF addr < DeviceWindow
        THEN IF addr >= NumDevices THEN raise(s, "IndexError")
             ELSE IF addr = 0
             THEN LET v  == FileInputDevice_value(s)
                      dr == write(s.data_reg, v)
                  IN  [s EXCEPT !.pointer = FileInputDevice_pointer(s),
                                !.mem = MemPut(@, 0, v),
                                !.data_reg = dr,
                                !.rd_log = Append(@, [addr |-> 0, cell |-> v,
                                                      reg |-> dr.value])]
             ELSE \* FileOutputDevice.read() returns None
                  LET s1 == [s EXCEPT !.mem = MemPut(@, addr, NoneCell)]
                  IN  IF s.data_reg.write_opened THEN raise(s1, "TypeError")
                      ELSE [s1 EXCEPT !.rd_log = Append(@, [addr |-> addr,
                                cell |-> NoneCell, reg |-> s.data_reg.value])]
        ELSE LET v  == MemGet(s.mem, addr)
                 dr == write(s.data_reg, v)
             IN  [s EXCEPT !.data_reg = dr,
                           !.rd_log = Append(@, [addr |-> addr, cell |-> v,
                                                 reg |-> dr.value])]

DataMemory_write(s) ==
    LET addr     == read(s.addr_reg)
        to_write == Number(bit_depth, read(s.data_reg))
    IN  IF addr < 0 THEN raise(s, "RuntimeError")
        ELSE IF addr < DeviceWindow
        THEN IF addr >= NumDevices THEN raise(s, "IndexError")
             ELSE LET s1 == IF addr = 0 THEN s ELSE FileOutputDevice_write(s, to_write)
                  IN  IF Ok(s1) THEN [s1 EXCEPT !.mem = MemPut(@, addr, to_write)]
                      ELSE s1
        ELSE [s EXCEPT !.mem = MemPut(@, addr, to_write)]

(***************************************************************************)
(* ALU.perform(signals)                                                    *)
(***************************************************************************)
\* variant: two registers driving one bus add up
ALU_result_summing(s, signals) ==
    LET left0  == Number(bit_depth, read(s.acc) + read(s.instr_pointer))
        right0 == Number(bit_depth, read(s.data_reg) + read(s.addr_reg))
        res0   == IF "inc" \in signals THEN set_value(bit_depth, 0 + 1) ELSE 0
        left   == IF "inv_left" \in signals THEN set_value(bit_depth, -left0) ELSE left0
        right  == IF "inv_right" \in signals THEN set_value(bit_depth, -right0) ELSE right0
    IN  set_value(bit_depth,
            NumAdd(bit_depth, NumAdd(bit_depth, res0, bit_depth, left), bit_depth, right))

ALU_result(s, signals) ==
    LET left0  == Number(bit_depth, IntOr(read(s.acc), read(s.instr_pointer)))
        right0 == Number(bit_depth, IntOr(read(s.data_reg), read(s.addr_reg)))
        res0   == IF "inc" \in signals THEN set_value(bit_depth, 0 + 1) ELSE 0
        left   == IF "inv_left" \in signals THEN set_value(bit_depth, -left0) ELSE left0
        right  == IF "inv_right" \in signals THEN set_value(bit_depth, -right0) ELSE right0
    IN  set_value(bit_depth,
            NumAdd(bit_depth, NumAdd(bit_depth, res0, bit_depth, left), bit_depth, right))

\* the registers that drive the two operand buses of a perform() call
ALU_drivers(s) ==
    [left  |-> {n \in {"acc", "instr_pointer"} : s[n].read_opened},
     right |-> {n \in {"data_reg", "addr_reg"} : s[n].read_opened}]

ALU_perform(s, signals) ==
    LET res == ALU_result(s, signals)
    IN  [s EXCEPT !.acc = write(@, res),
                  !.instr_pointer = write(@, res),
                  !.addr_reg = write(@, res),
                  !.data_reg = write(@, res),
                  !.alu_log = Append(@, ALU_drivers(s))]

(***************************************************************************)
(* ControlUnit.  Each operation maps a machine record to the record after  *)
(* it; once an exception is raised the rest of the call is skipped.        *)
(***************************************************************************)
_fetch_instruction(s) ==
    LET s1 == [s EXCEPT !.instr_pointer = open_read(@)]
        s2 == [s1 EXCEPT !.instruction = InstructionsMemory_read(s1)]
    IN  [s2 EXCEPT !.instr_pointer = close_read(@)]

\* variant: the address register's read-gate stays open after the read
_fetch_from_mem_driving(s, rel, value) ==
    LET addr == IF ~rel THEN value
                ELSE NumAdd(bit_depth, s.addr_reg.value, bit_depth, value)
        s1   == [s EXCEPT !.addr_reg = open_read(write(open_write(@), addr))]
    IN  DataMemory_read(s1)

\* the nested _fetch_from_mem; the address register's write-gate is opened
\* here and is not closed again
_fetch_from_mem(s, rel, value) ==
    LET addr == IF ~rel THEN value
                ELSE NumAdd(bit_depth, s.addr_reg.value, bit_depth, value)
        s1   == [s EXCEPT !.addr_reg = open_read(write(open_write(@), addr))]
        after_read(r) == IF Ok(r) THEN [r EXCEPT !.addr_reg = close_read(@)] ELSE r
    IN  after_read(DataMemory_read(s1))

_fetch_data(s) ==
    LET value      == Number(bit_depth, s.instruction.data)
        fetch_type == s.instruction.fetch_type
        s1 == [s EXCEPT !.data_reg = open_write(@)]
        after_fetch(r) == IF Ok(r) THEN [r EXCEPT !.data_reg = close_write(@)] ELSE r
    IN  IF set_value_fails(s.instruction.data) THEN raise(s, OverflowError)
        ELSE after_fetch(
          CASE fetch_type = "const" ->
                 [s1 EXCEPT !.data_reg = write(@, value)]
            [] fetch_type = "const_rel" ->
                 [s1 EXCEPT !.data_reg =
                    write(@, NumAdd(bit_depth, s.instr_pointer.value, bit_depth, value))]
            [] fetch_type = "acc" ->
                 LET a1 == [s1 EXCEPT !.acc = open_read(@)]
                     a2 == ALU_perform(a1, {})
                 IN  [a2 EXCEPT !.acc = close_read(@)]
            [] fetch_type = "abs_mem" -> _fetch_from_mem(s1, FALSE, value)
            [] fetch_type = "rel_mem" -> _fetch_from_mem(s1, TRUE, value)
            [] OTHER -> raise(s1, "InstructionError"))

\* variant: the advance ignores lock_inc
_next_unlocked(s) ==
    LET s1 == [s EXCEPT !.instr_pointer = open_write(open_read(@))]
        s2 == ALU_perform(s1, {"inc"})
    IN  [s2 EXCEPT !.instr_pointer = close_write(close_read(@))]

_next(s) ==
    IF ~s.lock_inc
    THEN LET s1 == [s EXCEPT !.instr_pointer = open_write(open_read(@))]
             s2 == ALU_perform(s1, {"inc"})
         IN  [s2 EXCEPT !.instr_pointer = close_write(close_read(@))]
    ELSE s

\* variant: an unknown opcode is skipped like an empty cell
_invalid_operation_skips(s) == s

_invalid_operation(s) == raise(s, "InstructionError")

_inc(s) ==
    LET s1 == [s EXCEPT !.acc = open_write(open_read(@))]
        s2 == ALU_perform(s1, {"inc"})
    IN  [s2 EXCEPT !.acc = close_write(close_read(@))]

_inv(s) ==
    LET s1 == [s EXCEPT !.acc = open_write(open_read(@))]
        s2 == ALU_perform(s1, {"inv_left"})
    IN  [s2 EXCEPT !.acc = close_write(close_read(@))]

_add(s, inv) ==
    LET signals == IF inv THEN {"inv_right"} ELSE {}
        after_fetch(r) ==
            IF Ok(r)
            THEN LET s1 == [r EXCEPT !.data_reg = open_read(@),
                                     !.acc = open_write(open_read(@))]
                     s2 == ALU_perform(s1, signals)
                 IN  [s2 EXCEPT !.data_reg = close_read(@),
                                !.acc = close_read(close_write(@))]
            ELSE r
    IN  after_fetch(_fetch_data(s))

\* variant: SUB without the inv_right signal
_sub_adds(s) == _add(s, FALSE)

_sub(s) == _add(s, TRUE)

_data_reg_to_addr_reg(s) ==
    LET s1 == [s EXCEPT !.data_reg = open_read(@), !.addr_reg = open_write(@)]
        s2 == ALU_perform(s1, {})
    IN  [s2 EXCEPT !.data_reg = close_read(@), !.addr_reg = close_write(@)]

\* variant: LD moves the fetched operand itself into the accumulator
_ld_immediate(s) ==
    LET after_fetch(r) ==
            IF Ok(r)
            THEN LET s1 == [r EXCEPT !.data_reg = open_read(@), !.acc = open_write(@)]
                     s2 == ALU_perform(s1, {})
                 IN  [s2 EXCEPT !.data_reg = close_read(@), !.acc = close_write(@)]
            ELSE r
    IN  after_fetch(_fetch_data(s))

_ld(s) ==
    LET \* data_reg -> acc
        after_read(r) ==
            IF Ok(r)
            THEN LET s1 == [r EXCEPT !.addr_reg = close_read(@),
                                     !.data_reg = open_read(close_write(@)),
                                     !.acc = open_write(@)]
                     s2 == ALU_perform(s1, {})
                 IN  [s2 EXCEPT !.data_reg = close_read(@), !.acc = close_write(@)]
            ELSE r
        \* read
        after_fetch(r) ==
            IF Ok(r)
            THEN LET s1 == _data_reg_to_addr_reg(r)
                     s2 == [s1 EXCEPT !.addr_reg = open_read(@),
                                      !.data_reg = open_write(@)]
                 IN  after_read(DataMemory_read(s2))
            ELSE r
    IN  after_fetch(_fetch_data(s))

_sv(s) ==
    LET after_write(r) ==
            IF Ok(r)
            THEN [r EXCEPT !.data_reg = close_read(@), !.addr_reg = close_read(@)]
            ELSE r
        after_fetch(r) ==
            IF Ok(r)
            THEN LET s1 == _data_reg_to_addr_reg(r)
                     \* acc -> data_reg
                     s2 == [s1 EXCEPT !.acc = open_read(@), !.data_reg = open_write(@)]
                     s3 == ALU_perform(s2, {})
                     \* write
                     s4 == [s3 EXCEPT !.acc = close_read(@),
                                      !.data_reg = open_read(close_write(@)),
                                      !.addr_reg = open_read(@)]
                 IN  after_write(DataMemory_write(s4))
            ELSE r
    IN  after_fetch(_fetch_data(s))

_jmp(s) ==
    LET after_fetch(r) ==
            IF Ok(r)
            THEN LET s1 == [r EXCEPT !.lock_inc = TRUE,
                                     !.data_reg = open_read(@),
                                     !.instr_pointer = open_write(@)]
                     s2 == ALU_perform(s1, {})
                 IN  [s2 EXCEPT !.data_reg = close_read(@),
                                !.instr_pointer = close_write(@)]
            ELSE r
    IN  after_fetch(_fetch_data(s))

\* variant: JZ with the test inverted
_jz_inverted(s) == IF s.acc.value # 0 THEN _jmp(s) ELSE s

\* the conditional jumps test self._acc.value.value, the stored number
_jz(s) == IF s.acc.value = 0 THEN _jmp(s) ELSE s

_jp(s) == IF s.acc.value > 0 THEN _jmp(s) ELSE s

\* variant: JN tests the gated read of the accumulator
_jn_gated(s) == IF read(s.acc) < 0 THEN _jmp(s) ELSE s

_jn(s) == IF s.acc.value < 0 THEN _jmp(s) ELSE s

\* variant: HLT raises the halt signal itself
_halt_raises(s) == raise([s EXCEPT !.halted = TRUE], "HaltedError")

\* variant: HLT does nothing
_halt_ignored(s) == s

_halt(s) == [s EXCEPT !.halted = TRUE]

_perform(s) ==
    LET op == s.instruction.operation
    IN  IF s.instruction = None THEN s
        ELSE CASE op = "INC" -> _inc(s)
               [] op = "INV" -> _inv(s)
               [] op = "ADD" -> _add(s, FALSE)
               [] op = "SUB" -> _sub(s)
               [] op = "LD"  -> _ld(s)
               [] op = "SV"  -> _sv(s)
               [] op = "JMP" -> _jmp(s)
               [] op = "JZ"  -> _jz(s)
               [] op = "JP"  -> _jp(s)
               [] op = "JN"  -> _jn(s)
               [] op = "HLT" -> _halt(s)
               [] OTHER      -> _invalid_operation(s)

\* variant: step() without the halted check
step_unchecked(s) ==
    LET after_perform(r) == IF Ok(r) THEN _next(r) ELSE r
    IN  after_perform(_perform(_fetch_instruction(
            [s EXCEPT !.exc = "none", !.lock_inc = FALSE])))

\* ControlUnit.step(); exc describes this call only
step(s) ==
    LET after_perform(r) == IF Ok(r) THEN _next(r) ELSE r
    IN  IF s.halted THEN raise(s, "HaltedError")
        ELSE after_perform(_perform(_fetch_instruction(
                [s EXCEPT !.exc = "none", !.lock_inc = FALSE])))

(***************************************************************************)
(* The initial records the machine is built from.                          *)
(***************************************************************************)
Instr(op, ft, d) == [operation |-> op, fetch_type |-> ft, data |-> d]

\* instructions without operand
Plain(op) == Instr(op, "", 0)

\* the instruction under study: every opcode with every fetch type, an
\* unknown opcode, an unknown fetch type and the empty cell
Alphabet ==
    {Plain("INC"), Plain("INV"), Plain("HLT"), Plain("MUL"), None}
    \cup {Instr(op, "const", d) :
            op \in {"ADD", "SUB", "LD", "SV", "JMP"}, d \in {-1, 0, 1, 2, 5, 65535}}
    \cup {Instr(op, "const_rel", d) :
            op \in {"ADD", "SUB", "LD", "SV", "JMP"}, d \in {-1, 2}}
    \cup {Instr(op, "acc", 0) : op \in {"ADD", "SUB", "LD", "SV", "JMP"}}
    \cup {Instr(op, "abs_mem", d) :
            op \in {"ADD", "SUB", "LD", "SV", "JMP"}, d \in {-1, 0, 1, 2, 5}}
    \cup {Instr(op, "rel_mem", d) :
            op \in {"ADD", "SUB", "LD", "SV", "JMP"}, d \in {-1, 0, 5}}
    \cup {Instr(op, "abs", 5) : op \in {"ADD", "SUB", "LD", "SV", "JMP"}}
    \cup {Instr(op, ft, d) : op \in {"JZ", "JP", "JN"},
            ft \in {"const", "const_rel", "abs_mem", "abs"}, d \in {0, 2}}

\* instructions that prepare the accumulator, the memory and the registers
Setup ==
    {Instr("ADD", "const", 7), Instr("SUB", "const", 65535),
     Instr("ADD", "const", 65535), Instr("ADD", "abs_mem", 5),
     Instr("LD", "const", 0)}

SeqsUpTo(S, n) == UNION {[1..k -> S] : k \in 0..n}

Scenario1 == <<Instr("LD", "const", 5), Instr("SV", "abs", 10), Plain("HLT")>>

Scenario1AbsMem == <<Instr("LD", "const", 5), Instr("SV", "abs_mem", 10), Plain("HLT")>>

Scenario2 ==
    <<Instr("LD", "const", 0), Instr("JZ", "const_rel", 2), Plain("INC"), Plain("HLT")>>

Scenario3 == <<Instr("ADD", "const", 7), Instr("SUB", "const", 3), Plain("HLT")>>

Programs ==
    {pre \o <<i>> : pre \in SeqsUpTo(Setup, MaxSetup), i \in Alphabet}
    \cup {Scenario1, Scenario1AbsMem, Scenario2, Scenario3,
          <<None, Plain("INC"), Plain("HLT")>>,
          <<Instr("ADD", "const", 5), Instr("SV", "const", 10), Plain("HLT")>>}

\* contents of in.txt as FileInputDevice.load_buffer() stores them
Inputs == SeqsUpTo({Number(bit_depth, 0), Number(bit_depth, 65)}, MaxInput)

\* the "data" list of the initial record
InitialData == {<< >>, <<0, 0, 0, 0, 0, -9>>}

\* no direct call was made
NoCall == [op |-> "none", arg |-> 0, result |-> 0]

(***************************************************************************)
(* Machine.__init__                                                        *)
(***************************************************************************)
Init ==
    /\ program \in Programs
    /\ buffer \in Inputs
    /\ data \in InitialData
    /\ mem = InitMem(data)
    /\ acc = Register
    /\ addr_reg = Register
    /\ data_reg = Register
    /\ instr_pointer = Register
    /\ pointer = 0
    /\ out = << >>
    /\ instruction = None
    /\ lock_inc = FALSE
    /\ halted = FALSE
    /\ exc = "none"
    /\ rd_log = << >>
    /\ steps = 0
    /\ alu_log = << >>
    /\ num = [bit_depth |-> bit_depth, value |-> 0]
    /\ last_call = NoCall
    /\ resumed = FALSE

(***************************************************************************)
(* Machine.single_step(): one ControlUnit.step().  HaltedError is caught   *)
(* and reported; any other exception leaves single_step() with the machine *)
(* as it was when the exception was raised, and the caller may call again. *)
(***************************************************************************)
\* the machine after the call is s
Becomes(s) ==
    /\ acc' = s.acc
    /\ addr_reg' = s.addr_reg
    /\ data_reg' = s.data_reg
    /\ instr_pointer' = s.instr_pointer
    /\ mem' = s.mem
    /\ pointer' = s.pointer
    /\ out' = s.out
    /\ instruction' = s.instruction
    /\ lock_inc' = s.lock_inc
    /\ halted' = s.halted
    /\ exc' = s.exc
    /\ rd_log' = s.rd_log
    /\ alu_log' = s.alu_log

single_step ==
    /\ steps < MaxSteps
    /\ Becomes(step(Machine))
    /\ steps' = steps + 1
    /\ resumed' = (resumed \/ exc \notin {"none", "HaltedError"})
    /\ UNCHANGED <<program, data, buffer, num, last_call>>

Next == single_step

Spec == Init /\ [][Next]_vars

(***************************************************************************)
(* Vocabulary of the properties.                                           *)
(***************************************************************************)
Opcodes == {"INC", "INV", "ADD", "SUB", "LD", "SV", "JMP", "JZ", "JP", "JN", "HLT"}

\* the instruction-memory cell the instruction pointer addresses
Fetched == InstructionsMemory_read([instr_pointer |-> open_read(instr_pointer)])

\* this step is a call of step()
Stepped == steps' = steps + 1

\* this step is a call of step() on a machine that is not halted
Executed == Stepped /\ ~halted

\* this step is a call of step() that returned normally
Returned == Stepped /\ exc' = "none"

\* the instruction pointer one further, wrapping at the end of the address space
Advanced(v) == IF v = MemSize - 1 THEN 0 ELSE v + 1

\* the signed-magnitude truncation: magnitude masked, sign kept
Truncated(v) == IF v < 0 THEN -((-v) % MemSize) ELSE v % MemSize

RegistersClosed ==
    \A r \in {acc, addr_reg, data_reg, instr_pointer} :
        ~r.read_opened /\ ~r.write_opened

\* the jump the fetched instruction asks for is taken
Taken ==
    \/ Fetched.operation = "JMP"
    \/ Fetched.operation = "JZ" /\ acc.value = 0
    \/ Fetched.operation = "JP" /\ acc.value > 0
    \/ Fetched.operation = "JN" /\ acc.value < 0

(***************************************************************************)
(* C1 as stated: a step on an empty cell or on an unknown opcode fails     *)
(* with an instruction error and does not advance the instruction pointer. *)
(***************************************************************************)
C1_AsStated ==
    [][(Executed /\ (Fetched = None \/ Fetched.operation \notin Opcodes))
         => (exc' = "InstructionError" /\ instr_pointer' = instr_pointer)]_vars

(***************************************************************************)
(* C1 amended: a step on an unknown opcode fails with an instruction error *)
(* and does not advance the instruction pointer; a step on an empty cell   *)
(* returns normally, leaves accumulator, data register, memory and devices *)
(* alone and advances the instruction pointer by one.                      *)
(***************************************************************************)
C1_InstructionError ==
    [][/\ (Executed /\ Fetched # None /\ Fetched.operation \notin Opcodes)
            => (exc' = "InstructionError" /\ instr_pointer' = instr_pointer)
       /\ (Executed /\ Fetched = None)
            => /\ exc' = "none"
               /\ instr_pointer'.value = Advanced(instr_pointer.value)
               /\ acc' = acc /\ data_reg' = data_reg /\ mem' = mem
               /\ pointer' = pointer /\ out' = out /\ ~halted']_vars

\* an unknown opcode was stepped on: the call failed and the pointer stayed
C1_Witness ==
    /\ steps = 2
    /\ instruction.operation = "MUL"
    /\ exc = "InstructionError"
    /\ instr_pointer.value = 1

(***************************************************************************)
(* C2: advance law.  After a step that returns normally the instruction    *)
(* pointer is one further (wrapping at 2^bit_depth) unless the instruction *)
(* is a taken jump; after a taken jump it is the fetched operand, which    *)
(* the data register holds, with no increment.                             *)
(***************************************************************************)
\* the operand of the fetched instruction for the fetch types that do not
\* read memory
ImmediateOperand ==
    CASE Fetched.fetch_type = "const" -> Truncated(Fetched.data)
      [] Fetched.fetch_type = "const_rel" ->
            Truncated(instr_pointer.value + Truncated(Fetched.data))
      [] Fetched.fetch_type = "acc" -> acc.value

C2_AdvanceLaw ==
    [][(Returned /\ ~halted) =>
         IF Taken
         THEN /\ instr_pointer'.value = data_reg'.value
              /\ Fetched.fetch_type \in {"const", "const_rel", "acc"}
                    => instr_pointer'.value = ImmediateOperand
              /\ Fetched.fetch_type \in {"abs_mem", "rel_mem"}
                    => instr_pointer'.value = rd_log'[Len(rd_log')].cell
         ELSE instr_pointer'.value = Advanced(instr_pointer.value)]_vars

\* a conditional jump was taken from address 1 to the relative target 1 + 2
C2_Witness ==
    /\ exc = "none"
    /\ lock_inc
    /\ instruction = Instr("JP", "const_rel", 2)
    /\ steps = 2
    /\ instr_pointer.value = 3

(***************************************************************************)
(* C3 as stated: after every step that returns normally the read-gate and  *)
(* the write-gate of all four registers are closed.                        *)
(***************************************************************************)
C3_GatesClosed == exc = "none" => RegistersClosed

(***************************************************************************)
(* C4: halted is terminal.  The step that executes HLT halts the machine;  *)
(* every later call of step() fails with the halt signal and leaves the    *)
(* registers, their gates, both memories and both devices unchanged, and   *)
(* the machine stays halted.                                               *)
(***************************************************************************)
C4_HaltedTerminal ==
    [][/\ (Executed /\ Fetched.operation = "HLT") => halted'
       /\ halted =>
            /\ halted'
            /\ Stepped => exc' = "HaltedError"
            /\ acc' = acc /\ addr_reg' = addr_reg /\ data_reg' = data_reg
            /\ instr_pointer' = instr_pointer
            /\ mem' = mem /\ program' = program
            /\ pointer' = pointer /\ out' = out]_vars

\* a halted machine with a non-zero accumulator was stepped twice more
C4_Witness ==
    /\ halted
    /\ exc = "HaltedError"
    /\ steps >= 4
    /\ acc.value # 0

(***************************************************************************)
(* C5 as stated: the step that executes HLT ends with the halt signal.     *)
(***************************************************************************)
C5_AsStated ==
    [][(Executed /\ Fetched.operation = "HLT") => exc' = "HaltedError"]_vars

(***************************************************************************)
(* C5 amended: the halt signal is raised exactly by the calls of step() on *)
(* an already halted machine; the call that executes HLT returns normally  *)
(* with the machine halted, so single_step() reports termination on the    *)
(* call after it.                                                          *)
(***************************************************************************)
C5_HaltSignal ==
    [][/\ Stepped => ((exc' = "HaltedError") <=> halted)
       /\ (Executed /\ Fetched.operation = "HLT") => (exc' = "none" /\ halted')]_vars

\* HLT has just been executed: the machine is halted and no signal was raised
C5_Witness ==
    /\ halted
    /\ instruction = Plain("HLT")
    /\ exc = "none"
    /\ steps >= 1

(***************************************************************************)
(* C6: ADD and SUB.  After an ADD step that returns normally the           *)
(* accumulator holds the signed-magnitude truncation of its value before   *)
(* plus the fetched operand, after a SUB step that of its value before     *)
(* minus the fetched operand; the operand is the one the fetch type        *)
(* designates.                                                             *)
(***************************************************************************)
C6_AddSub ==
    [][(Returned /\ ~halted /\ Fetched.operation \in {"ADD", "SUB"}) =>
         LET d == data_reg'.value
         IN  /\ Fetched.fetch_type \in {"const", "const_rel", "acc"}
                   => d = ImmediateOperand
             /\ Fetched.fetch_type \in {"abs_mem", "rel_mem"}
                   => d = rd_log'[Len(rd_log')].cell
             /\ acc'.value = Truncated(IF Fetched.operation = "ADD"
                                       THEN acc.value + d
                                       ELSE acc.value - d)]_vars

\* accumulator 7, then SUB const 3: the accumulator holds 4
C6_Witness ==
    /\ program = Scenario3
    /\ steps = 2
    /\ exc = "none"
    /\ instruction = Instr("SUB", "const", 3)
    /\ acc.value = 4

(***************************************************************************)
(* C7 as stated: the run of [LD const 5, SV abs 10, HLT] on empty data     *)
(* ends with the machine halted and data-memory cell 10 holding 5 (with    *)
(* the fetch type of SV read as written, abs, or as abs_mem).              *)
(***************************************************************************)
C7_AsStated ==
    (program \in {Scenario1, Scenario1AbsMem} /\ data = << >> /\ exc # "none")
        => (halted /\ MemGet(mem, 10) = 5)

(***************************************************************************)
(* C7 amended: the run of [LD const 5, SV abs_mem 10, HLT] on empty data   *)
(* ends after three steps with the machine halted, the accumulator 0 and   *)
(* data-memory cell 10 holding 0: LD const 5 loads cell 5, and SV abs_mem  *)
(* 10 stores at the address held by cell 10.  With the fetch type written  *)
(* abs the second step fails with an instruction error and the machine     *)
(* does not halt.                                                          *)
(***************************************************************************)
C7_Scenario1 ==
    /\ (program = Scenario1AbsMem /\ data = << >>) =>
         /\ exc \in {"none", "HaltedError"}
         /\ steps >= 1 => acc.value = 0
         /\ steps >= 3 => halted
         /\ steps >= 4 => exc = "HaltedError"
         /\ MemGet(mem, 10) = 0
    /\ (program = Scenario1 /\ data = << >> /\ ~resumed) =>
         /\ ~halted
         /\ MemGet(mem, 10) = 0
         /\ steps <= 2
         /\ steps = 2 => exc = "InstructionError"

\* the run of the abs_mem program has ended with the halt signal
C7_Witness ==
    /\ program = Scenario1AbsMem
    /\ data = << >>
    /\ halted
    /\ exc = "HaltedError"
    /\ MemGet(mem, 10) = 0

(***************************************************************************)
(* C8 as stated: in the run of [LD const 0, JZ const_rel 2, INC, HLT] the  *)
(* accumulator is 0 after the LD, the JZ is taken to address 3, INC is     *)
(* never executed, the machine halts and the accumulator ends at 0.        *)
(***************************************************************************)
C8_AsStated ==
    program = Scenario2 =>
        /\ steps >= 1 => acc.value = 0
        /\ steps = 2 => (lock_inc /\ instr_pointer.value = 3)
        /\ instruction # Plain("INC")
        /\ steps >= 3 => halted

(***************************************************************************)
(* C8 amended: the same, provided the input device has no pending value    *)
(* or its first pending value is 0 (LD const 0 reads address 0, the input  *)
(* device).                                                                *)
(***************************************************************************)
C8_Scenario2 ==
    (program = Scenario2 /\ (buffer = << >> \/ buffer[1] = 0)) =>
        /\ exc \in {"none", "HaltedError"}
        /\ steps >= 1 => acc.value = 0
        /\ steps = 2 => (lock_inc /\ instr_pointer.value = 3)
        /\ instruction # Plain("INC")
        /\ steps >= 3 => halted
        /\ steps >= 4 => exc = "HaltedError"

\* the JZ has just jumped over the INC
C8_Witness ==
    /\ program = Scenario2
    /\ steps = 2
    /\ instruction = Instr("JZ", "const_rel", 2)
    /\ lock_inc
    /\ instr_pointer.value = 3
    /\ acc.value = 0

(***************************************************************************)
(* C9: the conditional jumps decide on the accumulator's stored value      *)
(* while its read-gate is closed.  When the condition holds (JZ: = 0, JP:  *)
(* > 0, JN: < 0) the step ends exactly as a JMP with the same operand      *)
(* would; when it does not, no operand is fetched (no memory read, no      *)
(* input consumed, no fetch-type error) and accumulator and data register  *)
(* keep their values while the instruction pointer advances.               *)
(***************************************************************************)
\* how step() ends when it executes instruction i as a JMP
JmpOutcome(i) ==
    LET after_jmp(r) == IF Ok(r) THEN _next(r) ELSE r
    IN  after_jmp(_jmp([Machine EXCEPT !.exc = "none", !.lock_inc = FALSE,
                                       !.instruction = i]))

\* the machine after the step is j, whatever the instruction register holds
EndsAs(j) ==
    /\ acc' = j.acc /\ addr_reg' = j.addr_reg
    /\ data_reg' = j.data_reg /\ instr_pointer' = j.instr_pointer
    /\ mem' = j.mem /\ pointer' = j.pointer /\ out' = j.out
    /\ lock_inc' = j.lock_inc /\ halted' = j.halted
    /\ exc' = j.exc /\ rd_log' = j.rd_log

C9_ConditionalJumps ==
    [][(Executed /\ Fetched.operation \in {"JZ", "JP", "JN"}) =>
         /\ read(acc) = 0
         /\ IF Taken
            THEN EndsAs(JmpOutcome(Fetched))
            ELSE /\ exc' = "none"
                 /\ ~lock_inc'
                 /\ rd_log' = rd_log /\ pointer' = pointer /\ mem' = mem
                 /\ acc' = acc /\ data_reg' = data_reg
                 /\ instr_pointer'.value = Advanced(instr_pointer.value)]_vars

\* JN was taken on a negative accumulator whose read-gate is closed
C9_Witness ==
    /\ instruction.operation = "JN"
    /\ lock_inc
    /\ exc = "none"
    /\ acc.value < 0
    /\ ~acc.read_opened
    /\ instr_pointer.value = data_reg.value

(***************************************************************************)
(* C10: input-device ordering.  The k-th data-memory read at address 0     *)
(* delivers the k-th value of the input into cell 0 and the data register, *)
(* or 0 once the input is exhausted, and the input position is the number  *)
(* of such reads made (at most the input's length): nothing else consumes  *)
(* input.                                                                  *)
(***************************************************************************)
IsInputRead(e) == e.addr = 0

InputReads == SelectSeq(rd_log, IsInputRead)

InputAt(k) == IF k <= Len(buffer) THEN buffer[k] ELSE 0

C10_InputOrder ==
    /\ \A k \in 1..Len(InputReads) :
          /\ InputReads[k].cell = InputAt(k)
          /\ InputReads[k].reg = InputAt(k)
    /\ pointer = Min(Len(InputReads), Len(buffer))

\* three reads of address 0 on a two-value input: the third delivered 0
C10_Witness ==
    /\ Len(buffer) = 2
    /\ buffer[1] = 65
    /\ Len(InputReads) = 3
    /\ InputReads[1].reg = 65
    /\ InputReads[3].reg = 0
    /\ pointer = 2

(***************************************************************************)
(* The operand of the fetched instruction and whether its fetch completed: *)
(* the immediate fetch types always deliver one, the memory fetch types    *)
(* deliver the cell of the read they completed.                            *)
(***************************************************************************)
OperandFetched ==
    \/ Fetched.fetch_type \in {"const", "const_rel", "acc"}
    \/ /\ Fetched.fetch_type \in {"abs_mem", "rel_mem"}
       /\ Len(rd_log') > Len(rd_log)

Operand ==
    IF Fetched.fetch_type \in {"const", "const_rel", "acc"}
    THEN ImmediateOperand
    ELSE rd_log'[Len(rd_log')].cell

(***************************************************************************)
(* C11 as stated: a step that executes SV with a fetched target address    *)
(* t >= 0 stores the accumulator's value into mem[t], leaves the           *)
(* accumulator and every other data-memory cell at an address >= 4         *)
(* unchanged and appends the accumulator's value to the output once iff    *)
(* t = 1; a step that executes any other instruction appends nothing.      *)
(***************************************************************************)
C11_AsStated ==
    [][Executed =>
         /\ (Fetched.operation = "SV" /\ OperandFetched /\ Operand >= 0) =>
              /\ MemGet(mem', Operand) = acc.value
              /\ acc'.value = acc.value
              /\ \A a \in (DOMAIN mem) \cup (DOMAIN mem') :
                    (a >= DeviceWindow /\ a # Operand)
                        => MemGet(mem', a) = MemGet(mem, a)
              /\ out' = IF Operand = 1 THEN Append(out, acc.value) ELSE out
         /\ Fetched.operation # "SV" => out' = out]_vars

\* the same law for the SV steps that return normally
C11_ReturningStore ==
    [][(Returned /\ ~halted) =>
         /\ (Fetched.operation = "SV" /\ OperandFetched /\ Operand >= 0) =>
              /\ MemGet(mem', Operand) = acc.value
              /\ acc'.value = acc.value
              /\ \A a \in (DOMAIN mem) \cup (DOMAIN mem') :
                    (a >= DeviceWindow /\ a # Operand)
                        => MemGet(mem', a) = MemGet(mem, a)
              /\ out' = IF Operand = 1 THEN Append(out, acc.value) ELSE out
         /\ Fetched.operation # "SV" => out' = out]_vars

(***************************************************************************)
(* Memory accesses of a step.  The operand fetch of ADD, SUB, LD, SV, JMP  *)
(* and of a taken conditional jump reads data memory at FetchAddress for   *)
(* the fetch types abs_mem and rel_mem; LD and SV then access data memory  *)
(* at the fetched operand.                                                 *)
(***************************************************************************)
FetchesOperand ==
    \/ Fetched.operation \in {"ADD", "SUB", "LD", "SV", "JMP"}
    \/ Fetched.operation = "JZ" /\ acc.value = 0
    \/ Fetched.operation = "JP" /\ acc.value > 0
    \/ Fetched.operation = "JN" /\ acc.value < 0

FetchAddress ==
    IF Fetched.fetch_type = "abs_mem" THEN Truncated(Fetched.data)
    ELSE Truncated(addr_reg.value + Truncated(Fetched.data))

NegativeFetch ==
    /\ FetchesOperand
    /\ Fetched.fetch_type \in {"abs_mem", "rel_mem"}
    /\ FetchAddress < 0

NegativeTarget ==
    /\ Fetched.operation \in {"LD", "SV"}
    /\ OperandFetched
    /\ Operand < 0

\* the step failed and neither read nor wrote a data-memory cell
FailedUntouched ==
    /\ exc' = "RuntimeError"
    /\ mem' = mem
    /\ out' = out
    /\ pointer' = pointer

(***************************************************************************)
(* C12 as stated: a negative address presented to a memory access is       *)
(* fatal.  A step whose instruction fetch finds a negative value in the    *)
(* instruction pointer fails without fetching an instruction, and a        *)
(* data-memory read or write with a negative value in the address register *)
(* fails without reading or writing a cell.                                *)
(***************************************************************************)
C12_AsStated ==
    [][Executed =>
         /\ instr_pointer.value < 0 =>
               /\ exc' \notin {"none", "HaltedError"}
               /\ instruction' = instruction
         /\ (instr_pointer.value >= 0 /\ NegativeFetch) =>
               FailedUntouched /\ Len(rd_log') = Len(rd_log)
         /\ (instr_pointer.value >= 0 /\ NegativeTarget) => FailedUntouched]_vars

\* the data-memory half on its own, whatever the instruction pointer holds
C12_DataAccess ==
    [][Executed =>
         /\ NegativeFetch => FailedUntouched /\ Len(rd_log') = Len(rd_log)
         /\ NegativeTarget => FailedUntouched]_vars

(***************************************************************************)
(* Construction.  Machine.__init__ takes the initial record as it was read *)
(* from the JSON file: a token of the "data" list is an integer or         *)
(* something else, and both lists may be as long as the file makes them.   *)
(* Before the constructor ran nothing of the machine exists (exc is        *)
(* "unbuilt"); Machine_init is the constructor call and leaves exc "none"  *)
(* when it returned a machine, the exception's name otherwise.             *)
(***************************************************************************)
\* a token of the "data" list
Token(v) == [type |-> "int", value |-> v]

StrToken == [type |-> "str", value |-> 0]

\* Machine._parse_initial: type(token) != int raises RuntimeError, and
\* Number(self.bit_depth, token) raises OverflowError
token_fails(t) == t.type # "int" \/ set_value_fails(t.value)

_parse_initial_fails(raw) == \E i \in 1..Len(raw) : token_fails(raw[i])

\* the exception of the first token that fails
_parse_initial_error(raw) ==
    LET failing == {i \in 1..Len(raw) : token_fails(raw[i])}
        first   == CHOOSE i \in failing : \A j \in failing : i <= j
    IN  IF raw[first].type # "int" THEN "RuntimeError" ELSE OverflowError

_parse_initial(raw) == [i \in 1..Len(raw) |-> raw[i].value]

\* InstructionsMemory.__init__: assert len(program) < 2 ** bit_depth
InstructionsMemory_init_fails(p) == ~(Len(p) < 2 ^ bit_depth)

\* DataMemory.__init__: assert len(data) < 2 ** bit_depth
DataMemory_init_fails(d) == ~(Len(d) < 2 ^ bit_depth)

\* how Machine.__init__ ends
Machine_init_outcome ==
    IF _parse_initial_fails(data) THEN _parse_initial_error(data)
    ELSE IF InstructionsMemory_init_fails(program) THEN "AssertionError"
    ELSE IF DataMemory_init_fails(data) THEN "AssertionError"
    ELSE "none"

Machine_init ==
    /\ exc = "unbuilt"
    /\ exc' = Machine_init_outcome
    /\ IF Machine_init_outcome = "none"
       THEN /\ data' = _parse_initial(data)
            /\ mem' = InitMem(_parse_initial(data))
       ELSE UNCHANGED <<data, mem>>
    /\ UNCHANGED <<acc, addr_reg, data_reg, instr_pointer, program, buffer,
                   pointer, out, instruction, lock_inc, halted, rd_log, steps,
                   alu_log, num, last_call, resumed>>

\* list lengths far below and around the size of the memories
SmallLengths == {0, 1, 2}

BigLengths == {MemSize - 1, MemSize, MemSize + 1}

\* a list of n copies of x
Filled(n, x) == [i \in 1..n |-> x]

\* the list l with x in its last place
EndingWith(l, x) == [i \in 1..Len(l) |-> IF i = Len(l) THEN x ELSE l[i]]

\* data list of n tokens: n copies of t, or zeros ending with the
\* non-integer token
DataList(n, t) ==
    IF t = StrToken THEN EndingWith(Filled(n, Token(0)), StrToken)
    ELSE Filled(n, t)

\* the initial records, each as <<program length, instruction, data length,
\* token>>: short lists, one long list beside a short one, and two lists
\* that both fill their memory
ConstructInputs ==
    (SmallLengths \X {Plain("HLT"), Plain("INC")}
        \X SmallLengths \X {Token(0), Token(7), StrToken})
    \cup (BigLengths \X {Plain("HLT")} \X {0, 1} \X {Token(7), StrToken})
    \cup ({0, 1} \X {Plain("HLT")} \X BigLengths \X {Token(0)})
    \cup {<<1, Plain("HLT"), MemSize - 1, StrToken>>,
          <<MemSize, Plain("HLT"), MemSize, Token(0)>>}

InitConstruct ==
    /\ \E input \in ConstructInputs :
          /\ program = Filled(input[1], input[2])
          /\ data = DataList(input[3], input[4])
    /\ buffer = << >>
    /\ mem = << >>
    /\ acc = Register
    /\ addr_reg = Register
    /\ data_reg = Register
    /\ instr_pointer = Register
    /\ pointer = 0
    /\ out = << >>
    /\ instruction = None
    /\ lock_inc = FALSE
    /\ halted = FALSE
    /\ exc = "unbuilt"
    /\ rd_log = << >>
    /\ steps = 0
    /\ alu_log = << >>
    /\ num = [bit_depth |-> bit_depth, value |-> 0]
    /\ last_call = NoCall
    /\ resumed = FALSE

\* the constructor returned a machine
Built == exc # "unbuilt" /\ ~(steps = 0 /\ exc # "none")

NextConstruct == Machine_init \/ (Built /\ single_step)

SpecConstruct == InitConstruct /\ [][NextConstruct]_vars

\* this step is the constructor call
Constructed == exc = "unbuilt" /\ exc' # "unbuilt"

(***************************************************************************)
(* C13 as stated: construction fails exactly when some data element is not *)
(* an integer, or the data list is longer than 2^bit_depth, or the program *)
(* list is longer than 2^bit_depth; a list of exactly 2^bit_depth elements *)
(* is accepted.                                                            *)
(***************************************************************************)
C13_AsStated ==
    [][Constructed =>
         (exc' # "none" <=>
            \/ \E i \in 1..Len(data) : data[i].type # "int"
            \/ Len(data) > MemSize
            \/ Len(program) > MemSize)]_vars

\* what the constructor does: a list of 2^bit_depth elements is rejected
\* too, and so is an integer that no float can hold
C13_Rejected ==
    [][Constructed =>
         (exc' # "none" <=>
            \/ \E i \in 1..Len(data) : data[i].type # "int"
            \/ \E i \in 1..Len(data) : set_value_fails(data[i].value)
            \/ Len(data) >= MemSize
            \/ Len(program) >= MemSize)]_vars

(***************************************************************************)
(* Number on its own.  A Number object of any width is built with a value  *)
(* (Number_init) or assigned one (Number_set_value); last_call keeps the   *)
(* argument of the call.                                                   *)
(***************************************************************************)
\* widths: 1..MaxBits and the machine's
BitDepths == (1..MaxBits) \cup {bit_depth}

\* arguments: every integer that reaches beyond the widest small Number and
\* the integers around the multiples of 2^bit_depth
NumberValues ==
    ((-(2 ^ (MaxBits + 1)) - 1)..(2 ^ (MaxBits + 1) + 1))
        \cup {sg * (k * MemSize + d) : sg \in {-1, 1}, k \in {1, 2}, d \in {-1, 0, 1}}

\* the call op(arg) was made and gave result
Called(op, arg, result) == last_call' = [op |-> op, arg |-> arg, result |-> result]

\* a call that raised OverflowError leaves the Number as it was
Number_init ==
    \E bd \in BitDepths, v \in NumberValues :
        IF set_value_fails(v)
        THEN num' = num /\ Called(OverflowError, v, 0)
        ELSE /\ num' = [bit_depth |-> bd, value |-> Number(bd, v)]
             /\ Called("Number", v, 0)

Number_set_value ==
    \E v \in NumberValues :
        IF set_value_fails(v)
        THEN num' = num /\ Called(OverflowError, v, 0)
        ELSE /\ num' = [num EXCEPT !.value = set_value(num.bit_depth, v)]
             /\ Called("set_value", v, 0)

MachineIdle ==
    UNCHANGED <<acc, addr_reg, data_reg, instr_pointer, mem, program, data,
                buffer, pointer, out, instruction, lock_inc, halted, exc,
                rd_log, steps, alu_log, resumed>>

\* a machine built from an empty initial record that has not run
NoRun ==
    /\ program = << >>
    /\ data = << >>
    /\ buffer = << >>
    /\ mem = InitMem(data)
    /\ pointer = 0
    /\ out = << >>
    /\ instruction = None
    /\ lock_inc = FALSE
    /\ halted = FALSE
    /\ exc = "none"
    /\ rd_log = << >>
    /\ steps = 0
    /\ alu_log = << >>

InitNumber ==
    /\ NoRun
    /\ acc = Register
    /\ addr_reg = Register
    /\ data_reg = Register
    /\ instr_pointer = Register
    /\ num \in {[bit_depth |-> bd, value |-> 0] : bd \in BitDepths}
    /\ last_call = NoCall
    /\ resumed = FALSE

NextNumber ==
    \/ Number_init /\ MachineIdle
    \/ Number_set_value /\ MachineIdle

SpecNumber == InitNumber /\ [][NextNumber]_vars

Sign(v) == IF v > 0 THEN 1 ELSE IF v < 0 THEN -1 ELSE 0

\* 2^bd - 1 for the Number under study
Mask == 2 ^ num.bit_depth - 1

\* num holds what a construction or an assignment left
Assigned == last_call.op \in {"Number", "set_value"}

(***************************************************************************)
(* C14 as stated: for every bit_depth >= 1 and every integer v, building   *)
(* or assigning a Number with v stores the magnitude abs(v) & (2^bd - 1)   *)
(* with the sign of v, so the Number's magnitude is at most 2^bd - 1 and   *)
(* its sign is the sign of the value last assigned.                        *)
(***************************************************************************)
C14_AsStated ==
    Assigned =>
        /\ Abs(num.value) = NatAnd(Abs(last_call.arg), Mask)
        /\ Sign(num.value) = Sign(last_call.arg)
        /\ Abs(num.value) <= Mask

\* what set_value does where the float holds the masked magnitude exactly
\* (a width of at most MantissaBits) and the argument is within the floats:
\* the magnitude law, and the sign of v unless the truncated magnitude is
\* zero
C14_Truncation ==
    (Assigned /\ num.bit_depth <= MantissaBits) =>
        /\ Abs(num.value) = NatAnd(Abs(last_call.arg), Mask)
        /\ Sign(num.value) =
              IF NatAnd(Abs(last_call.arg), Mask) = 0 THEN 0
              ELSE Sign(last_call.arg)
        /\ Abs(num.value) <= Mask

\* the registers and the data-memory cells of the running machine stay
\* within 2^bit_depth - 1 (a cell of the output device's address can hold
\* Python None instead of a Number)
C14_MachineBound ==
    /\ \A r \in {acc, addr_reg, data_reg, instr_pointer} :
          Abs(r.value) <= MemSize - 1
    /\ \A a \in DOMAIN mem : mem[a] = NoneCell \/ Abs(mem[a]) <= MemSize - 1

(***************************************************************************)
(* Register on its own.  The methods of one Register (the accumulator's)   *)
(* are called directly, in any order; last_call keeps the method, the      *)
(* argument of write() and what read() returned.                           *)
(***************************************************************************)
\* arguments of write(): small values of both signs and values beyond the
\* register's width
RegisterValues == {0, 5, -3, MemSize - 1, MemSize + 7, -(MemSize + 1)}

Register_open_read == acc' = open_read(acc) /\ Called("open_read", 0, 0)

Register_close_read == acc' = close_read(acc) /\ Called("close_read", 0, 0)

Register_open_write == acc' = open_write(acc) /\ Called("open_write", 0, 0)

Register_close_write == acc' = close_write(acc) /\ Called("close_write", 0, 0)

Register_write ==
    \E n \in RegisterValues :
        IF acc.write_opened /\ set_value_fails(n)
        THEN acc' = acc /\ Called(OverflowError, n, 0)
        ELSE acc' = write(acc, n) /\ Called("write", n, 0)

Register_read == acc' = acc /\ Called("read", 0, read(acc))

\* nothing but the accumulator is touched
OthersIdle ==
    UNCHANGED <<addr_reg, data_reg, instr_pointer, mem, program, data, buffer,
                pointer, out, instruction, lock_inc, halted, exc, rd_log,
                steps, alu_log, num, resumed>>

InitRegister ==
    /\ NoRun
    /\ acc = Register
    /\ addr_reg = Register
    /\ data_reg = Register
    /\ instr_pointer = Register
    /\ num = [bit_depth |-> bit_depth, value |-> 0]
    /\ last_call = NoCall
    /\ resumed = FALSE

NextRegister ==
    \/ Register_open_read /\ OthersIdle
    \/ Register_close_read /\ OthersIdle
    \/ Register_open_write /\ OthersIdle
    \/ Register_close_write /\ OthersIdle
    \/ Register_write /\ OthersIdle
    \/ Register_read /\ OthersIdle

SpecRegister == InitRegister /\ [][NextRegister]_vars

(***************************************************************************)
(* C15, gate law: after any sequence of open_read, close_read, open_write, *)
(* close_write and write calls, read() returns the stored value iff the    *)
(* read-gate is open at the call and zero otherwise, and changes nothing;  *)
(* opening or closing the read-gate sets that gate and leaves the stored   *)
(* value and the write-gate alone, so reopening exposes the same value.    *)
(***************************************************************************)
C15_GateLaw ==
    [][/\ last_call'.op = "read" =>
            /\ last_call'.result = IF acc.read_opened THEN acc.value ELSE 0
            /\ acc' = acc
       /\ last_call'.op \in {"open_read", "close_read"} =>
            /\ acc'.value = acc.value
            /\ acc'.write_opened = acc.write_opened
            /\ acc'.read_opened = (last_call'.op = "open_read")]_vars

\* read() with the gate closed on a register that holds 7 (65543 truncated)
\* returned zero
C15_Witness ==
    /\ last_call.op = "read"
    /\ acc.value = 7
    /\ ~acc.read_opened
    /\ last_call.result = 0

(***************************************************************************)
(* C16, write-gate law: write(n) with the write-gate open leaves n         *)
(* truncated to the register's width as the stored value; with the gate    *)
(* closed it leaves the stored value unchanged; either way both gates stay *)
(* as they were, and no other call changes the stored value.               *)
(***************************************************************************)
C16_WriteGateLaw ==
    [][/\ last_call'.op = "write" =>
            /\ acc'.value = IF acc.write_opened THEN Truncated(last_call'.arg)
                            ELSE acc.value
            /\ acc'.read_opened = acc.read_opened
            /\ acc'.write_opened = acc.write_opened
       /\ last_call'.op # "write" => acc'.value = acc.value]_vars

\* write(-3) with the gate closed left the 5 written earlier
C16_Witness ==
    /\ last_call = [op |-> "write", arg |-> -3, result |-> 0]
    /\ ~acc.write_opened
    /\ acc.value = 5

(***************************************************************************)
(* ALU on its own.  The four registers hold any values with any gates open *)
(* (each such state is reached by calling the Register methods) and        *)
(* ALU.perform is called once with any set of signals.                     *)
(***************************************************************************)
\* the values of the two registers of one bus: overlapping bits, mixed
\* signs, the largest magnitude, two negatives, one zero
BusPairs ==
    {<<5, 6>>, <<-3, 5>>, <<MemSize - 1, 1>>, <<-(MemSize - 1), -2>>, <<0, 9>>}

Signals == SUBSET {"inc", "inv_left", "inv_right"}

\* a register holding v, gates either way
Registers(v) ==
    {[value |-> v, read_opened |-> ro, write_opened |-> wo] :
        ro \in BOOLEAN, wo \in BOOLEAN}

InitALU ==
    /\ NoRun
    /\ \E l \in BusPairs, r \in BusPairs :
          /\ acc \in Registers(l[1])
          /\ instr_pointer \in Registers(l[2])
          /\ data_reg \in Registers(r[1])
          /\ addr_reg \in Registers(r[2])
    /\ num = [bit_depth |-> bit_depth, value |-> 0]
    /\ last_call = NoCall
    /\ resumed = FALSE

ALU_call ==
    /\ alu_log = << >>
    /\ \E signals \in Signals :
          /\ Becomes(ALU_perform(Machine, signals))
          /\ Called("perform", signals, 0)
    /\ UNCHANGED <<program, data, buffer, steps, num, resumed>>

NextALU == ALU_call

SpecALU == InitALU /\ [][NextALU]_vars

\* bit i of the two's complement form of x
Bit(x, i) == (x \div (2 ^ i)) % 2

\* the bits 0..i of x | y
RECURSIVE BitsOr(_, _, _)
BitsOr(x, y, i) ==
    IF i < 0 THEN 0
    ELSE (IF Bit(x, i) = 1 \/ Bit(y, i) = 1 THEN 2 ^ i ELSE 0) + BitsOr(x, y, i - 1)

\* bitwise OR of two register values: the OR of their low bit_depth + 1
\* bits, negative when either is
BitOr(x, y) ==
    BitsOr(x, y, bit_depth) - (IF x < 0 \/ y < 0 THEN 2 ^ (bit_depth + 1) ELSE 0)

\* what registers a and b, sharing a bus, put on it
Bus(a, b) ==
    IF a.read_opened /\ b.read_opened THEN BitOr(a.value, b.value)
    ELSE IF a.read_opened THEN a.value
    ELSE IF b.read_opened THEN b.value
    ELSE 0

\* the result of perform(signals) from the two bus values
Result(signals) ==
    Truncated(
        Truncated((IF "inc" \in signals THEN 1 ELSE 0)
                    + (IF "inv_left" \in signals THEN -Bus(acc, instr_pointer)
                       ELSE Bus(acc, instr_pointer)))
          + (IF "inv_right" \in signals THEN -Bus(data_reg, addr_reg)
             ELSE Bus(data_reg, addr_reg)))

\* register r became r2 by a broadcast of v
Latched(r, r2, v) == r2.value = IF r.write_opened THEN v ELSE r.value

(***************************************************************************)
(* C17, bus-OR law: in a perform() call the left operand is the bitwise OR *)
(* of the accumulator and the instruction pointer when both read-gates are *)
(* open (not their sum), the value of the one whose gate is open when only *)
(* one is, and zero when none is; the right operand is the same of the     *)
(* data register and the address register.  The result computed from these *)
(* operands is what every register with an open write-gate latches.        *)
(***************************************************************************)
C17_BusOrLaw ==
    [][last_call'.op = "perform" =>
         /\ Latched(acc, acc', Result(last_call'.arg))
         /\ Latched(instr_pointer, instr_pointer', Result(last_call'.arg))
         /\ Latched(data_reg, data_reg', Result(last_call'.arg))
         /\ Latched(addr_reg, addr_reg', Result(last_call'.arg))]_vars

\* accumulator 5 and instruction pointer 6 drove the left bus together,
\* nothing drove the right one, and the data register latched 7, not 11
C17_Witness ==
    /\ last_call = [op |-> "perform", arg |-> {}, result |-> 0]
    /\ alu_log = <<[left |-> {"acc", "instr_pointer"}, right |-> {}]>>
    /\ acc.value = 5 /\ ~acc.write_opened
    /\ instr_pointer.value = 6 /\ ~instr_pointer.write_opened
    /\ data_reg.write_opened
    /\ data_reg.value = 7

(***************************************************************************)
(* C18 as stated: the address register's stored value changes only in a    *)
(* step that executes LD or SV or fetches its operand with fetch type      *)
(* abs_mem or rel_mem; a step that executes INC, INV, HLT, a conditional   *)
(* jump that is not taken, or ADD, SUB or JMP with fetch type const,       *)
(* const_rel or acc leaves it unchanged, whatever was executed before.     *)
(***************************************************************************)
\* the step may move the address register: LD, SV, or an operand fetch
\* from memory
UsesAddrReg ==
    \/ Fetched.operation \in {"LD", "SV"}
    \/ FetchesOperand /\ Fetched.fetch_type \in {"abs_mem", "rel_mem"}

C18_AsStated ==
    [][Executed =>
         /\ addr_reg'.value # addr_reg.value => UsesAddrReg
         /\ (\/ Fetched.operation \in {"INC", "INV", "HLT"}
             \/ Fetched.operation \in {"JZ", "JP", "JN"} /\ ~Taken
             \/ /\ Fetched.operation \in {"ADD", "SUB", "JMP"}
                /\ Fetched.fetch_type \in {"const", "const_rel", "acc"})
               => addr_reg'.value = addr_reg.value]_vars

\* the same frame for the steps that start with the address register's
\* write-gate closed
C18_ClosedGateFrame ==
    [][(Executed /\ ~addr_reg.write_opened) =>
         /\ addr_reg'.value # addr_reg.value => UsesAddrReg
         /\ (\/ Fetched.operation \in {"INC", "INV", "HLT"}
             \/ Fetched.operation \in {"JZ", "JP", "JN"} /\ ~Taken
             \/ /\ Fetched.operation \in {"ADD", "SUB", "JMP"}
                /\ Fetched.fetch_type \in {"const", "const_rel", "acc"})
               => addr_reg'.value = addr_reg.value]_vars

(***************************************************************************)
(* C19, single driver per bus: in every run from the initial state up to   *)
(* the first error or halt, each ALU.perform call the control unit issued  *)
(* found at most one of the accumulator and the instruction pointer with   *)
(* its read-gate open, and at most one of the data register and the        *)
(* address register.                                                       *)
(***************************************************************************)
C19_SingleDriver ==
    ~resumed =>
        \A k \in 1..Len(alu_log) :
            /\ Cardinality(alu_log[k].left) <= 1
            /\ Cardinality(alu_log[k].right) <= 1

\* an ADD from memory ran: its perform() had the accumulator alone on the
\* left bus and the data register alone on the right one, and the pointer
\* increment that followed had the instruction pointer alone
C19_Witness ==
    /\ exc = "none"
    /\ instruction.operation = "ADD"
    /\ instruction.fetch_type = "abs_mem"
    /\ Len(alu_log) >= 2
    /\ alu_log[Len(alu_log) - 1] = [left |-> {"acc"}, right |-> {"data_reg"}]
    /\ alu_log[Len(alu_log)] = [left |-> {"instr_pointer"}, right |-> {}]

(***************************************************************************)
(* Machine.run(): the loop calls ControlUnit.step() again as soon as the   *)
(* last call returned, returns when a call raises HaltedError and is left  *)
(* by any other exception.  run_step is one turn of the loop; it is        *)
(* enabled as long as the last call returned normally, and the loop never  *)
(* waits, hence the weak fairness.  The two logs are restarted at every    *)
(* turn, so that they hold the calls of the last step only.                *)
(***************************************************************************)
run_step ==
    /\ exc = "none"
    /\ Becomes(step([Machine EXCEPT !.rd_log = << >>, !.alu_log = << >>]))
    /\ UNCHANGED <<program, data, buffer, steps, num, last_call, resumed>>

\* programs without a jump that end with HLT, that fail, and that do
\* neither; one program that jumps
RunPrograms ==
    {<<Plain("HLT")>>,
     <<None, Plain("HLT")>>,
     <<Instr("SV", "const", 5), Plain("HLT")>>,
     <<Instr("LD", "abs_mem", 0), Instr("SV", "const", 1), Plain("HLT")>>,
     <<Plain("MUL"), Plain("HLT")>>,
     <<Instr("SV", "const", 2)>>,
     << >>,
     <<Instr("LD", "const", 5)>>,
     <<Instr("JMP", "const", 0)>>}

InitRun ==
    /\ program \in RunPrograms
    /\ data = << >>
    /\ buffer \in {<< >>, <<65>>}
    /\ mem = InitMem(data)
    /\ acc = Register
    /\ addr_reg = Register
    /\ data_reg = Register
    /\ instr_pointer = Register
    /\ pointer = 0
    /\ out = << >>
    /\ instruction = None
    /\ lock_inc = FALSE
    /\ halted = FALSE
    /\ exc = "none"
    /\ rd_log = << >>
    /\ steps = 0
    /\ alu_log = << >>
    /\ num = [bit_depth |-> bit_depth, value |-> 0]
    /\ last_call = NoCall
    /\ resumed = FALSE

NextRun == run_step

SpecRun == InitRun /\ [][NextRun]_vars /\ WF_vars(run_step)

\* the program holds no jump instruction
JumpFree ==
    \A i \in 1..Len(program) : program[i].operation \notin {"JMP", "JZ", "JP", "JN"}

\* the program holds an HLT instruction
HasHlt == \E i \in 1..Len(program) : program[i].operation = "HLT"

\* the place of the first HLT instruction, counted from 1: the instruction
\* pointer holds it once that HLT was executed
FirstHlt ==
    CHOOSE i \in 1..Len(program) :
        /\ program[i].operation = "HLT"
        /\ \A j \in 1..(i - 1) : program[j].operation # "HLT"

\* the machine is as the constructor left it, the two logs aside
AsBuilt ==
    /\ acc = Register
    /\ addr_reg = Register
    /\ data_reg = Register
    /\ instr_pointer = Register
    /\ mem = InitMem(data)
    /\ pointer = 0
    /\ out = << >>
    /\ instruction = None
    /\ ~lock_inc
    /\ ~halted
    /\ exc = "none"

(***************************************************************************)
(* C20 as stated: for every program without JMP, JZ, JP and JN, run()      *)
(* terminates, by HLT or by a fatal error, and never steps forever.  The   *)
(* machine is deterministic, so a run that terminates never comes back to  *)
(* a state it has been in: no turn of the loop leaves the machine as it    *)
(* was when run() started.                                                 *)
(***************************************************************************)
C20_AsStated == [][JumpFree => ~(AsBuilt')]_vars

(***************************************************************************)
(* C20 amended: a program without jumps that holds an HLT instruction      *)
(* makes run() terminate: every turn of the loop either ends run() (it     *)
(* raises the halt signal or a fatal error) or moves the instruction       *)
(* pointer one cell on without passing the cell after the first HLT, so    *)
(* run() ends within FirstHlt + 1 turns.  A program without jumps and      *)
(* without HLT never makes run() return normally.                          *)
(***************************************************************************)
C20_Termination ==
    [][JumpFree =>
         IF HasHlt
         THEN \/ exc' # "none"
              \/ /\ instr_pointer'.value = instr_pointer.value + 1
                 /\ instr_pointer'.value <= FirstHlt
         ELSE exc' # "HaltedError"]_vars

\* run() returned at the third turn: SV stored the accumulator, HLT halted
\* and the next call raised the halt signal
C20_Witness ==
    /\ program = <<Instr("SV", "const", 5), Plain("HLT")>>
    /\ halted
    /\ exc = "HaltedError"
    /\ instr_pointer.value = 2
    /\ addr_reg.value = 5

====
